---- MODULE Spec2Model ----
(***************************************************************************)
(* Donation scoring and progression engine of good-will-hunting.           *)
(*                                                                         *)
(* goodwill_gym_backend.make_donation works on the SQLite file             *)
(* goodwill_gym.db through a connection of its own; calculate_points,      *)
(* get_missing_items, update_user_tier and update_gym_leader each open     *)
(* another connection.  The handler takes no lock: what keeps two calls    *)
(* apart is SQLite alone.  Python's sqlite3 opens a transaction at the     *)
(* first INSERT/UPDATE and not at a SELECT, so every SELECT is a read of   *)
(* the committed state at its own instant, and the statements from the     *)
(* first INSERT to conn.commit() become visible to the other connections   *)
(* in one step.  The model interleaves calls at that granularity.          *)
(* update_gym_leader runs as a background task after the response.         *)
(***************************************************************************)
EXTENDS Integers, Sequences, FiniteSets, TLC

(***************************************************************************)
(* Bounds of the model.                                                    *)
(***************************************************************************)
MaxRequests == 2
MaxNow == 2
\* requests of the single-donor specification SpecDay
MaxDayRequests == 3
\* award_points calls of the points service
MaxAwards == 2

Procs == {1, 2}

\* a background task per donation id
TaskIds == 1..(IF MaxDayRequests > MaxRequests THEN MaxDayRequests ELSE MaxRequests)

Users == {1, 2}
UserIds == Users \cup {9}

Storages == {1, 2}
StorageIds == Storages \cup {9}

ReqItems == {"Winter Coats", "Gadget"}
Quantities == {-1, 0, 40}

\* enhanced_backend: demo users, request amounts (dollars) and donation types
EbUsers == {"alice_demo", "bob_demo"}
EbUserIds == EbUsers \cup {"nobody"}
EbAmounts == {50, 100, 500}
EbTypes == {"monetary", "crypto"}

NULL == 0
NoDate == -1

(***************************************************************************)
(* Static reference data: database.py _seed_initial_data.                  *)
(* demand_multiplier is held in tenths (2.0 -> 20).                        *)
(***************************************************************************)
item_catalog ==
  [ i \in {"Winter Coats", "Canned Goods", "Children's Books", "Blankets", "Toys",
           "Baby Formula", "Hygiene Kits", "School Supplies", "Warm Socks",
           "First Aid Supplies"} |->
      CASE i = "Winter Coats"       -> [base_points |-> 25, demand_multiplier |-> 20]
        [] i = "Canned Goods"       -> [base_points |-> 10, demand_multiplier |-> 15]
        [] i = "Children's Books"   -> [base_points |-> 15, demand_multiplier |-> 18]
        [] i = "Blankets"           -> [base_points |-> 20, demand_multiplier |-> 22]
        [] i = "Toys"               -> [base_points |-> 12, demand_multiplier |-> 13]
        [] i = "Baby Formula"       -> [base_points |-> 30, demand_multiplier |-> 30]
        [] i = "Hygiene Kits"       -> [base_points |-> 18, demand_multiplier |-> 19]
        [] i = "School Supplies"    -> [base_points |-> 14, demand_multiplier |-> 16]
        [] i = "Warm Socks"         -> [base_points |-> 8,  demand_multiplier |-> 14]
        [] i = "First Aid Supplies" -> [base_points |-> 25, demand_multiplier |-> 25] ]

\* rows of storage_inventory that the modelled requests can touch
InventoryKeys == Storages \X {"Winter Coats"}

min_threshold == 5
SeedQuantities == {3, 50}

\* missing_items_requests as seeded for the modelled storages
SeedRequests ==
  << [storage_id |-> 1, item_name |-> "Winter Coats", bonus_points |-> 100, fulfilled |-> FALSE],
     [storage_id |-> 2, item_name |-> "Baby Formula", bonus_points |-> 150, fulfilled |-> FALSE] >>

VARIABLES
  users,            \* table users: id -> row
  storages,         \* table storages: id -> gym leader columns
  donations,        \* table donations, in insertion (id, donation_date) order
  storage_inventory,\* table storage_inventory: (storage, item) -> current_quantity
  missing_items_requests, \* table missing_items_requests
  now,              \* the machine clock, in half days
  pc,               \* position of each make_donation call
  loc,              \* locals of each make_donation call
  resp,             \* HTTP status of the last call of each slot
  tasks,            \* background update_gym_leader tasks, by donation id
  nreq,             \* requests received so far
  eb_users,             \* enhanced_backend db.users
  eb_donations,         \* enhanced_backend db.donations
  eb_user_achievements, \* enhanced_backend db.user_achievements
  eb_unlocked,          \* enhanced_backend db.achievements_catalog[a].unlocked
  eb_resp,              \* HTTP status of the last POST /donations
  backend,              \* the backend that was launched (each binds port 8000)
  call,                 \* a direct call of one function: arguments and result
  ps_users,             \* points service: Firestore collection users
  ps_transactions,      \* points service: collection points_transactions
  ps_user_achievements, \* points service: collection user_achievements
  ps_pc,                \* position of each award_points call
  ps_loc,               \* locals of each award_points call
  ps_resp,              \* HTTP status of the last award_points call of each slot
  ps_nreq,              \* award_points requests received so far
  notification,         \* type of the notification in the last DonationResponse of each slot
  message_templates,    \* notification_agent.message_templates: intact or broken
  ds_users,             \* donation service: Firestore collection users
  ds_donations,         \* donation service: collection donations, in creation order
  ds_pc,                \* position of each create_donation call
  ds_loc,               \* locals of each create_donation call
  ds_nreq,              \* create_donation requests received so far
  fb_cached_users,      \* fast_backend: the lru_cache of get_cached_users
  fb_cached_storages    \* fast_backend: the lru_cache of get_cached_storages

vars == << users, storages, donations, storage_inventory, missing_items_requests,
           now, pc, loc, resp, tasks, nreq,
           eb_users, eb_donations, eb_user_achievements, eb_unlocked, eb_resp,
           backend, call,
           ps_users, ps_transactions, ps_user_achievements, ps_pc, ps_loc, ps_resp,
           ps_nreq, notification, message_templates,
           ds_users, ds_donations, ds_pc, ds_loc, ds_nreq,
           fb_cached_users, fb_cached_storages >>

dbvars == << users, storages, donations, storage_inventory, missing_items_requests >>

\* enhanced_backend.py: the in-memory DataStore
ebvars == << eb_users, eb_donations, eb_user_achievements, eb_unlocked, eb_resp, backend >>

\* services/points-service/main.py: the Firestore collections and the calls
psvars == << ps_users, ps_transactions, ps_user_achievements, ps_pc, ps_loc, ps_resp,
             ps_nreq >>

\* notification_agent.py: the module-level agent and what it last returned
agentvars == << notification, message_templates >>

\* what the other services and direct calls leave alone
\* services/donation-service/main.py: the Firestore collections and the calls
dsvars == << ds_users, ds_donations, ds_pc, ds_loc, ds_nreq >>

\* fast_backend.py: the two caches of the process
fbvars == << fb_cached_users, fb_cached_storages >>

restvars == << agentvars, dsvars, fbvars >>

\* everything outside goodwill_gym_backend and its database
othervars == << ebvars, call, psvars, restvars >>

\* date.today()
today == now \div 2

(***************************************************************************)
(* Pure helpers.                                                           *)
(***************************************************************************)
\* Python int(): truncation toward zero of n/d
PyInt(n, d) == IF n >= 0 THEN n \div d ELSE -((-n) \div d)

RECURSIVE SetMax(_)
SetMax(S) ==
  LET x == CHOOSE y \in S : TRUE
  IN IF S = {x} THEN x
     ELSE LET m == SetMax(S \ {x}) IN IF x > m THEN x ELSE m

RECURSIVE SumSeq(_, _)
\* sum of f[i] over the indices of the set I
SumSeq(f, I) ==
  IF I = {} THEN 0
  ELSE LET i == CHOOSE j \in I : TRUE IN f[i] + SumSeq(f, I \ {i})

NoLocals ==
  [ donation |-> [user_id |-> 0, storage_id |-> 0, item_name |-> "", quantity |-> 0],
    user |-> [total_points |-> 0, total_donations |-> 0, streak_days |-> 0,
              last_donation_date |-> NoDate],
    is_missing_item |-> FALSE,
    points_data |-> [base_points |-> 0, bonus_points |-> 0, total_points |-> 0],
    donation_id |-> 0,
    new_tier |-> "" ]

NoTask == [st |-> "none", storage_id |-> 0, user_id |-> 0, total_points |-> 0]

InitStore ==
  /\ users = [u \in Users |->
       [tier |-> "bronze", total_points |-> 0, total_donations |-> 0,
        streak_days |-> 0, last_donation_date |-> NoDate]]
  /\ storages = [s \in Storages |-> [gym_leader_id |-> NULL, gym_leader_points |-> 0]]
  /\ donations = << >>
  /\ storage_inventory \in { inv \in [InventoryKeys -> SeedQuantities] :
                              inv[<< 1, "Winter Coats" >>] = 3 }
  /\ missing_items_requests = SeedRequests
  /\ now = 0
  /\ pc = [p \in Procs |-> "idle"]
  /\ loc = [p \in Procs |-> NoLocals]
  /\ resp = [p \in Procs |-> "none"]
  /\ tasks = [d \in TaskIds |-> NoTask]
  /\ nreq = 0
  /\ eb_users = [u \in EbUsers |->
       [tier |-> "bronze", total_donations |-> 0, total_amount |-> 0, total_points |-> 0,
        streak_days |-> 0, last_donation |-> NoDate]]
  /\ eb_donations = << >>
  /\ eb_user_achievements = [u \in EbUsers |-> << >>]
  /\ eb_unlocked = {}
  /\ eb_resp = "none"
  /\ notification = [p \in Procs |-> "none"]


(***************************************************************************)
(* database.py get_missing_items(storage_id): the cataloged items whose    *)
(* inventory row at the storage is at or below its threshold.  The LEFT    *)
(* JOIN with missing_items_requests only decorates the rows, so an item    *)
(* is listed whether or not a request for it exists.                       *)
(***************************************************************************)
get_missing_items(storage_id, inv) ==
  { k[2] : k \in { kk \in DOMAIN inv :
                     /\ kk[1] = storage_id
                     /\ kk[2] \in DOMAIN item_catalog
                     /\ inv[kk] <= min_threshold } }

\* make_donation lines 410-415
is_missing(donation, inv) ==
  donation.item_name \in get_missing_items(donation.storage_id, inv)

(***************************************************************************)
(* goodwill_gym_backend.calculate_points                                   *)
(***************************************************************************)
DefaultBasePoints == 10
DefaultMultiplier == 10

\* no default: an item without a catalog row is worth nothing
CatalogEntryNoDefault(item_name) ==
  IF item_name \in DOMAIN item_catalog
    THEN item_catalog[item_name]
    ELSE [base_points |-> 0, demand_multiplier |-> DefaultMultiplier]

CatalogEntry(item_name) ==
  IF item_name \in DOMAIN item_catalog
    THEN item_catalog[item_name]
    ELSE [base_points |-> DefaultBasePoints, demand_multiplier |-> DefaultMultiplier]

(***************************************************************************)
(* Line 117 multiplies the int base_points * quantity by the REAL           *)
(* demand_multiplier, an IEEE 754 double, and truncates the rounded         *)
(* product.  The double nearest to k/10 in the binade [2^e, 2^(e+1)) is     *)
(* k/10 less r/10 units in its last place, r = (k * 2^(52-e)) mod 10, when  *)
(* r < 5, and is above k/10 otherwise.  With n the int and P = n*k/10 a     *)
(* whole number, the exact product is P - n * (r/10) * 2^(e-52); it rounds  *)
(* to a double below P, and int() gives P - 1, when that deficit is more    *)
(* than half the spacing 2^(f-52) of the doubles below P, 2^f < P <=        *)
(* 2^(f+1).  When P is not whole the error cannot reach the next integer.  *)
(***************************************************************************)
RECURSIVE Pow2(_)
Pow2(n) == IF n = 0 THEN 1 ELSE 2 * Pow2(n - 1)

\* (2^n) mod 10: the last digits of the powers of two come round in fours
Pow2Mod10(n) == IF n = 0 THEN 1 ELSE << 2, 4, 8, 6 >>[((n - 1) % 4) + 1]

\* the binade of k/10, for 1.0 <= k/10
RECURSIVE BinadeOf(_, _)
BinadeOf(k, e) == IF k < 10 * Pow2(e + 1) THEN e ELSE BinadeOf(k, e + 1)

\* tenths of a unit in the last place by which float(k/10) is below k/10
DoubleDeficit(k) ==
  LET r == (k * Pow2Mod10(52 - BinadeOf(k, 0))) % 10
  IN IF r < 5 THEN r ELSE 0

\* the least power of two that is not below P
RECURSIVE Pow2AtLeast(_, _)
Pow2AtLeast(P, e) == IF Pow2(e) >= P THEN Pow2(e) ELSE Pow2AtLeast(P, e + 1)

\* int(a * float(k/10)) for an int a >= 0
FloatTruncated(a, k) ==
  LET exact == (a * k) \div 10
      below == /\ a > 0
               /\ (a * k) % 10 = 0
               /\ DoubleDeficit(k) > 0
               /\ 4 * a * DoubleDeficit(k) * Pow2(BinadeOf(k, 0))
                    > 10 * Pow2AtLeast(exact, 0)
  IN IF below THEN exact - 1 ELSE exact

\* int(base_points * quantity * demand_multiplier)
ItemPoints(item_name, quantity) ==
  LET n == CatalogEntry(item_name).base_points * quantity
      k == CatalogEntry(item_name).demand_multiplier
  IN IF n >= 0 THEN FloatTruncated(n, k) ELSE -FloatTruncated(-n, k)

\* SELECT bonus_points FROM missing_items_requests
\*   WHERE item_name = ? AND fulfilled = 0 ORDER BY bonus_points DESC LIMIT 1
BonusRows(item_name, mir) ==
  { mir[i].bonus_points : i \in { j \in DOMAIN mir :
        mir[j].item_name = item_name /\ ~mir[j].fulfilled } }

BonusPoints(item_name, quantity, is_missing_item, mir) ==
  IF is_missing_item /\ BonusRows(item_name, mir) # {}
    THEN SetMax(BonusRows(item_name, mir)) * quantity
    ELSE 0

calculate_points(item_name, quantity, is_missing_item, mir) ==
  [ base_points  |-> ItemPoints(item_name, quantity),
    bonus_points |-> BonusPoints(item_name, quantity, is_missing_item, mir),
    total_points |-> ItemPoints(item_name, quantity)
                       + BonusPoints(item_name, quantity, is_missing_item, mir) ]

(***************************************************************************)
(* goodwill_gym_backend.update_user_tier: the threshold table              *)
(***************************************************************************)
\* the silver and gold rows of the table exchanged
TierOfExchanged(total_points) ==
  IF total_points >= 10000 THEN "platinum"
  ELSE IF total_points >= 5000 THEN "silver"
  ELSE IF total_points >= 2000 THEN "gold"
  ELSE "bronze"

TierOf(total_points) ==
  IF total_points >= 10000 THEN "platinum"
  ELSE IF total_points >= 5000 THEN "gold"
  ELSE IF total_points >= 2000 THEN "silver"
  ELSE "bronze"

(***************************************************************************)
(* make_donation lines 441-458: the new user columns, computed from the    *)
(* row read at line 400                                                    *)
(***************************************************************************)
\* the bonus left out of the user's total
NewTotalPointsBaseOnly(user, points_data) == user.total_points + points_data.base_points

NewTotalPoints(user, points_data) == user.total_points + points_data.total_points

\* a gap of several days counted as the next day
NewStreakNoReset(user, day) ==
  IF user.last_donation_date # NoDate
    THEN IF day - user.last_donation_date = 0 THEN user.streak_days
         ELSE user.streak_days + 1
    ELSE 1

NewStreak(user, day) ==
  IF user.last_donation_date # NoDate
    THEN IF day - user.last_donation_date = 1 THEN user.streak_days + 1
         ELSE IF day - user.last_donation_date = 0 THEN user.streak_days
         ELSE 1
    ELSE 1

(***************************************************************************)
(* database.py update_gym_leader: SUM(points_awarded) per donor at the     *)
(* storage, ORDER BY total_points DESC LIMIT 1.  The query names no second *)
(* sort key, so among donors with the same sum SQLite may return any.      *)
(***************************************************************************)
DonorsAt(storage_id, ledger) ==
  { ledger[i].user_id : i \in { j \in DOMAIN ledger :
        ledger[j].storage_id = storage_id /\ ledger[j].user_id \in Users } }

PointsAt(storage_id, user_id, ledger) ==
  SumSeq([i \in DOMAIN ledger |-> ledger[i].points_awarded],
         { j \in DOMAIN ledger : ledger[j].storage_id = storage_id
                                 /\ ledger[j].user_id = user_id })

LeaderRows(storage_id, ledger) ==
  { [user_id |-> u, total_points |-> PointsAt(storage_id, u, ledger)] :
      u \in DonorsAt(storage_id, ledger) }

TopRows(storage_id, ledger) ==
  { r \in LeaderRows(storage_id, ledger) :
      \A q \in LeaderRows(storage_id, ledger) : r.total_points >= q.total_points }


(***************************************************************************)
(* make_donation, one action per database interaction                      *)
(***************************************************************************)
DonationInputs ==
  [user_id : UserIds, storage_id : StorageIds, item_name : ReqItems, quantity : Quantities]

UserRow(user_id) ==
  [ total_points       |-> users[user_id].total_points,
    total_donations    |-> users[user_id].total_donations,
    streak_days        |-> users[user_id].streak_days,
    last_donation_date |-> users[user_id].last_donation_date ]

\* the validation placed after the INSERT, the row committed before the raise
RejectKeepingRow(p, status) ==
  /\ resp' = [resp EXCEPT ![p] = status]
  /\ pc' = [pc EXCEPT ![p] = "idle"]
  /\ loc' = [loc EXCEPT ![p] = NoLocals]
  /\ donations' = Append(donations,
       [ user_id |-> loc[p].donation.user_id, storage_id |-> loc[p].donation.storage_id,
         item_name |-> loc[p].donation.item_name, quantity |-> loc[p].donation.quantity,
         points_awarded |-> 0, bonus_points |-> 0, missing_item_bonus |-> FALSE ])
  /\ UNCHANGED << users, storages, storage_inventory, missing_items_requests >>

\* raise HTTPException: re-raised at line 506 (or, at line 508, after
\* conn.rollback()), the connection is closed at line 513 with nothing written
Reject(p, status) ==
  /\ resp' = [resp EXCEPT ![p] = status]
  /\ pc' = [pc EXCEPT ![p] = "idle"]
  /\ loc' = [loc EXCEPT ![p] = NoLocals]
  /\ UNCHANGED dbvars

\* lines 395-403: the request arrives; SELECT * FROM users WHERE id = ?
SelectUser(p) ==
  /\ backend = "goodwill_gym_backend"
  /\ pc[p] = "idle"
  /\ nreq' = nreq + 1
  /\ \E d \in DonationInputs :
       IF d.user_id \in DOMAIN users
         THEN /\ pc' = [pc EXCEPT ![p] = "select_storage"]
              /\ loc' = [loc EXCEPT ![p] =
                           [NoLocals EXCEPT !.donation = d, !.user = UserRow(d.user_id)]]
              /\ resp' = [resp EXCEPT ![p] = "pending"]
              /\ UNCHANGED dbvars
         ELSE Reject(p, "404")
  /\ UNCHANGED << now, tasks, othervars >>

\* lines 405-408: SELECT * FROM storages WHERE id = ?
SelectStorage(p) ==
  /\ pc[p] = "select_storage"
  /\ IF loc[p].donation.storage_id \in DOMAIN storages
       THEN /\ pc' = [pc EXCEPT ![p] = "missing_items"]
            /\ UNCHANGED << loc, resp, dbvars >>
       ELSE Reject(p, "404")
  /\ UNCHANGED << now, tasks, nreq, othervars >>

\* lines 410-415: get_missing_items(donation.storage_id) on its own connection
CheckMissing(p) ==
  /\ pc[p] = "missing_items"
  /\ loc' = [loc EXCEPT ![p].is_missing_item = is_missing(loc[p].donation, storage_inventory)]
  /\ pc' = [pc EXCEPT ![p] = "calculate"]
  /\ UNCHANGED << dbvars, now, resp, tasks, nreq, othervars >>

\* lines 417-422: calculate_points on its own connection
CalculatePoints(p) ==
  /\ pc[p] = "calculate"
  /\ loc' = [loc EXCEPT ![p].points_data =
               calculate_points(loc[p].donation.item_name, loc[p].donation.quantity,
                                loc[p].is_missing_item, missing_items_requests)]
  /\ pc' = [pc EXCEPT ![p] = "write"]
  /\ UNCHANGED << dbvars, now, resp, tasks, nreq, othervars >>

\* lines 424-437: the row INSERTed into donations
DonationRow(l) ==
  [ user_id            |-> l.donation.user_id,
    storage_id         |-> l.donation.storage_id,
    item_name          |-> l.donation.item_name,
    quantity           |-> l.donation.quantity,
    points_awarded     |-> l.points_data.total_points,
    bonus_points       |-> l.points_data.bonus_points,
    missing_item_bonus |-> l.is_missing_item ]

\* lines 460-464: UPDATE users SET total_points, total_donations, streak_days,
\* last_donation_date; the tier column is not written
UpdatedUser(row, l, day) ==
  [ row EXCEPT !.total_points       = NewTotalPoints(l.user, l.points_data),
               !.total_donations    = l.user.total_donations + 1,
               !.streak_days        = NewStreak(l.user, day),
               !.last_donation_date = day ]

\* lines 466-471: UPDATE storage_inventory SET current_quantity = current_quantity + ?
UpdatedInventory(inv, d) ==
  [ k \in DOMAIN inv |->
      IF k = << d.storage_id, d.item_name >> THEN inv[k] + d.quantity ELSE inv[k] ]

\* the storage left out of the WHERE clause
UpdatedRequestsAnyStorage(mir, l) ==
  IF l.is_missing_item
    THEN [ i \in DOMAIN mir |->
             IF mir[i].item_name = l.donation.item_name
               THEN [mir[i] EXCEPT !.fulfilled = TRUE]
               ELSE mir[i] ]
    ELSE mir

\* lines 473-479: UPDATE missing_items_requests SET fulfilled = 1
\*   WHERE storage_id = ? AND item_name = ? AND fulfilled = 0
UpdatedRequests(mir, l) ==
  IF l.is_missing_item
    THEN [ i \in DOMAIN mir |->
             IF mir[i].storage_id = l.donation.storage_id
                /\ mir[i].item_name = l.donation.item_name
               THEN [mir[i] EXCEPT !.fulfilled = TRUE]
               ELSE mir[i] ]
    ELSE mir

\* lines 424-481: the transaction from the INSERT to conn.commit()
CommitDonation(p) ==
  /\ pc[p] = "write"
  /\ donations' = Append(donations, DonationRow(loc[p]))
  /\ users' = [users EXCEPT ![loc[p].donation.user_id] = UpdatedUser(@, loc[p], today)]
  /\ storage_inventory' = UpdatedInventory(storage_inventory, loc[p].donation)
  /\ missing_items_requests' = UpdatedRequests(missing_items_requests, loc[p])
  /\ loc' = [loc EXCEPT ![p].donation_id = Len(donations) + 1]
  /\ pc' = [pc EXCEPT ![p] = "tier_select"]
  /\ UNCHANGED << storages, now, resp, tasks, nreq, othervars >>

\* lines 508-511: a statement of the transaction raises (sqlite3.OperationalError):
\* conn.rollback() and HTTP 500
DonationFails(p) ==
  /\ pc[p] = "write"
  /\ Reject(p, "500")
  /\ UNCHANGED << now, tasks, nreq, othervars >>

\* update_user_tier lines 155-173: SELECT tier, total_points; the threshold table
TierSelect(p) ==
  /\ pc[p] = "tier_select"
  /\ LET row == users[loc[p].donation.user_id]
     IN IF TierOf(row.total_points) # row.tier
          THEN /\ loc' = [loc EXCEPT ![p].new_tier = TierOf(row.total_points)]
               /\ pc' = [pc EXCEPT ![p] = "tier_update"]
          ELSE /\ pc' = [pc EXCEPT ![p] = "respond"]
               /\ UNCHANGED loc
  /\ UNCHANGED << dbvars, now, resp, tasks, nreq, othervars >>

\* update_user_tier lines 175-178: UPDATE users SET tier = ?; commit
TierUpdate(p) ==
  /\ pc[p] = "tier_update"
  /\ users' = [users EXCEPT ![loc[p].donation.user_id].tier = loc[p].new_tier]
  /\ pc' = [pc EXCEPT ![p] = "respond"]
  /\ UNCHANGED << storages, donations, storage_inventory, missing_items_requests,
                  loc, now, resp, tasks, nreq, othervars >>

\* the except branch of generate_notification left out: nothing is returned
GenerateNotificationNoFallback(templates) ==
  IF templates = "intact" THEN "donation" ELSE "none"

\* notification_agent.py generate_notification lines 150-194: the 'type' of the
\* dict returned, the fallback of the except branch when _get_message raises
generate_notification(templates) ==
  IF templates = "intact" THEN "donation" ELSE "error"

\* lines 486-504: notify_donation, background_tasks.add_task(update_gym_leader,
\* storage_id), return DonationResponse
Respond(p) ==
  /\ pc[p] = "respond"
  /\ notification' = [notification EXCEPT ![p] = generate_notification(message_templates)]
  /\ tasks' = [tasks EXCEPT ![loc[p].donation_id] =
                 [NoTask EXCEPT !.st = "queued", !.storage_id = loc[p].donation.storage_id]]
  /\ resp' = [resp EXCEPT ![p] = "200"]
  /\ pc' = [pc EXCEPT ![p] = "idle"]
  /\ loc' = [loc EXCEPT ![p] = NoLocals]
  /\ UNCHANGED << dbvars, now, nreq, ebvars, call, psvars, message_templates,
                  dsvars, fbvars >>

(***************************************************************************)
(* database.py update_gym_leader, run from the background task             *)
(***************************************************************************)
\* lines 315-333: the aggregate SELECT and cursor.fetchone()
LeaderSelect(t) ==
  /\ tasks[t].st = "queued"
  /\ IF LeaderRows(tasks[t].storage_id, donations) = {}
       THEN tasks' = [tasks EXCEPT ![t] = NoTask]
       ELSE \E r \in TopRows(tasks[t].storage_id, donations) :
              tasks' = [tasks EXCEPT ![t] =
                          [@ EXCEPT !.st = "selected", !.user_id = r.user_id,
                                    !.total_points = r.total_points]]
  /\ UNCHANGED << dbvars, now, pc, loc, resp, nreq, othervars >>

\* lines 337-346: UPDATE storages SET gym_leader_id = ?, gym_leader_points = ?; commit
LeaderUpdate(t) ==
  /\ tasks[t].st = "selected"
  /\ storages' = [storages EXCEPT ![tasks[t].storage_id] =
                    [gym_leader_id |-> tasks[t].user_id,
                     gym_leader_points |-> tasks[t].total_points]]
  /\ tasks' = [tasks EXCEPT ![t] = NoTask]
  /\ UNCHANGED << users, donations, storage_inventory, missing_items_requests,
                  now, pc, loc, resp, nreq, othervars >>

(***************************************************************************)
(* The except branches that swallow an exception of a collaborator         *)
(***************************************************************************)
\* calculate_points lines 143-145: a statement of the function raises; the
\* fixed result of the except branch is returned to make_donation
ScoringFails(p) ==
  /\ pc[p] = "calculate"
  /\ loc' = [loc EXCEPT ![p].points_data =
               [base_points |-> 10, bonus_points |-> 0, total_points |-> 10]]
  /\ pc' = [pc EXCEPT ![p] = "write"]
  /\ UNCHANGED << dbvars, now, resp, tasks, nreq, othervars >>

\* update_user_tier lines 182-184: the SELECT or the UPDATE raises; the
\* exception is logged, None is returned and make_donation goes on
TierFails(p) ==
  /\ pc[p] \in {"tier_select", "tier_update"}
  /\ pc' = [pc EXCEPT ![p] = "respond"]
  /\ UNCHANGED << dbvars, loc, now, resp, tasks, nreq, othervars >>

\* update_gym_leader lines 348-352: a statement raises; conn.rollback()
LeaderFails(t) ==
  /\ tasks[t].st \in {"queued", "selected"}
  /\ tasks' = [tasks EXCEPT ![t] = NoTask]
  /\ UNCHANGED << dbvars, now, pc, loc, resp, nreq, othervars >>

\* half a day passes
Tick ==
  /\ now < MaxNow
  /\ now' = now + 1
  /\ UNCHANGED << dbvars, pc, loc, resp, tasks, nreq, othervars >>


(***************************************************************************)
(* enhanced_backend.py: GameEngine and POST /donations.  The store is a    *)
(* process-local object and the handler has no await, so one call is one   *)
(* step.                                                                   *)
(***************************************************************************)
\* DataStore._initialize_achievements: achievement -> points_reward
achievements_catalog ==
  [ a \in {"first_donation", "generous_giver", "champion_donor",
           "consistent_supporter", "streak_master", "crypto_pioneer"} |->
      CASE a = "first_donation"       -> 100
        [] a = "generous_giver"       -> 500
        [] a = "champion_donor"       -> 1000
        [] a = "consistent_supporter" -> 750
        [] a = "streak_master"        -> 1500
        [] a = "crypto_pioneer"       -> 2000 ]

\* the order in which check_achievements walks the catalog
CatalogOrder ==
  << "first_donation", "generous_giver", "champion_donor",
     "consistent_supporter", "streak_master", "crypto_pioneer" >>

\* GameEngine.calculate_points: type_bonuses, in tenths
TypeBonus(donation_type) ==
  CASE donation_type = "monetary" -> 10
    [] donation_type = "crypto"   -> 15
    [] donation_type = "goods"    -> 12
    [] donation_type = "time"     -> 20

Min(a, b) == IF a < b THEN a ELSE b

\* GameEngine.calculate_points(amount, user, donation_type)
EbCalculatePoints(amount, user, donation_type) ==
  LET base_points  == amount * 10
      streak_bonus == Min(user.streak_days * 50, 500)
      type_points  == PyInt(base_points * TypeBonus(donation_type), 10)
      bonus_points == type_points - base_points + streak_bonus
  IN [ base_points  |-> base_points,
       bonus_points |-> bonus_points,
       streak_bonus |-> streak_bonus,
       total_points |-> base_points + bonus_points ]

\* GameEngine.update_user_tier: by total_amount
EbTierOf(total_amount) ==
  IF total_amount >= 2000 THEN "platinum"
  ELSE IF total_amount >= 500 THEN "gold"
  ELSE IF total_amount >= 100 THEN "silver"
  ELSE "bronze"

\* create_donation lines 479-486: (now - last_donation).days
EbNewStreak(user, t) ==
  IF user.last_donation # NoDate /\ (t - user.last_donation) \div 2 = 1
    THEN user.streak_days + 1
  ELSE IF user.last_donation = NoDate \/ (t - user.last_donation) \div 2 > 1
    THEN 1
  ELSE user.streak_days

\* check_achievements lines 323-334: the unlock predicate of one achievement
EbUnlocked(a, user, donation) ==
  CASE a = "first_donation"       -> user.total_donations >= 1
    [] a = "generous_giver"       -> donation.amount >= 100
    [] a = "champion_donor"       -> user.total_amount >= 500
    [] a = "consistent_supporter" -> user.total_donations >= 10
    [] a = "streak_master"        -> user.streak_days >= 7
    [] a = "crypto_pioneer"       -> donation.donation_type = "crypto"

\* the test of line 318 left out: achievements already held are unlocked again
EbNewAchievementsAgain(user, donation, have) ==
  SelectSeq(CatalogOrder, LAMBDA a : EbUnlocked(a, user, donation))

\* check_achievements lines 314-337: new_achievements, in catalog order
EbNewAchievements(user, donation, have) ==
  SelectSeq(CatalogOrder,
            LAMBDA a : /\ \A i \in DOMAIN have : have[i] # a
                       /\ EbUnlocked(a, user, donation))

\* the reward added once after the loop, for the first new achievement only
EbRewardFirstOnly(new_achievements) ==
  IF new_achievements = << >> THEN 0 ELSE achievements_catalog[new_achievements[1]]

\* check_achievements line 338: user.total_points += achievement.points_reward
EbReward(new_achievements) ==
  SumSeq([i \in DOMAIN new_achievements |-> achievements_catalog[new_achievements[i]]],
         DOMAIN new_achievements)

\* create_donation lines 474-489: the user after the stats, streak and tier updates
EbUpdatedUser(user, amount, points_info, t) ==
  [ user EXCEPT !.total_donations = @ + 1,
                !.total_amount    = @ + amount,
                !.total_points    = @ + points_info.total_points,
                !.streak_days     = EbNewStreak(user, t),
                !.last_donation   = t,
                !.tier            = EbTierOf(user.total_amount + amount) ]

\* POST /donations: create_donation
EbCreateDonation ==
  /\ backend = "enhanced_backend"
  /\ nreq < MaxRequests
  /\ nreq' = nreq + 1
  /\ \E u \in EbUserIds, amount \in EbAmounts, donation_type \in EbTypes :
       IF u \notin DOMAIN eb_users
         THEN /\ eb_resp' = "404"
              /\ UNCHANGED << eb_users, eb_donations, eb_user_achievements, eb_unlocked >>
         ELSE LET points_info == EbCalculatePoints(amount, eb_users[u], donation_type)
                  donation == [ user_id |-> u, amount |-> amount,
                                donation_type |-> donation_type,
                                points_awarded |-> points_info.total_points,
                                base_points |-> points_info.base_points,
                                bonus_points |-> points_info.bonus_points ]
                  user == EbUpdatedUser(eb_users[u], amount, points_info, now)
                  new_achievements ==
                    EbNewAchievements(user, donation, eb_user_achievements[u])
              IN /\ eb_users' = [eb_users EXCEPT ![u] =
                       [user EXCEPT !.total_points = @ + EbReward(new_achievements)]]
                 /\ eb_user_achievements' =
                       [eb_user_achievements EXCEPT ![u] = @ \o new_achievements]
                 /\ eb_unlocked' = eb_unlocked \cup
                       { new_achievements[i] : i \in DOMAIN new_achievements }
                 /\ eb_donations' = Append(eb_donations, donation)
                 /\ eb_resp' = "200"
  /\ UNCHANGED << dbvars, now, pc, loc, resp, tasks, backend, call, psvars, restvars >>

(***************************************************************************)
(* services/points-service/main.py: award_points works on Firestore        *)
(* through an async client; the coroutine gives up the event loop at each  *)
(* await of a Firestore call, so one action is one Firestore call with the *)
(* local code that follows it up to the next call.                         *)
(***************************************************************************)
PsProcs == {1, 2}
PsUsers == {"donor"}
PsUserIds == PsUsers \cup {"ghost"}
\* PointsTransaction.points and metadata['donation_amount'] of the requests
PsPoints == {50}
PsAmounts == {0, 100}

\* AchievementEngine._initialize_achievements, in the order of the dict
PsCatalogOrder ==
  << "first_donation", "generous_giver", "hundred_club", "location_explorer",
     "city_champion", "neighborhood_hero", "week_warrior", "consistency_king",
     "silver_status", "golden_giver", "platinum_plus", "diamond_dynasty",
     "social_sharer", "referral_champion" >>

achievement_definitions ==
  [ a \in { PsCatalogOrder[i] : i \in DOMAIN PsCatalogOrder } |->
      CASE a = "first_donation"    -> [points |-> 500,  req |-> "donation_count", value |-> 1]
        [] a = "generous_giver"    -> [points |-> 1000, req |-> "single_donation_amount", value |-> 100]
        [] a = "hundred_club"      -> [points |-> 5000, req |-> "donation_count", value |-> 100]
        [] a = "location_explorer" -> [points |-> 750,  req |-> "unique_locations", value |-> 5]
        [] a = "city_champion"     -> [points |-> 2000, req |-> "city_coverage", value |-> 100]
        [] a = "neighborhood_hero" -> [points |-> 1500, req |-> "neighborhood_rank", value |-> 1]
        [] a = "week_warrior"      -> [points |-> 800,  req |-> "daily_streak", value |-> 7]
        [] a = "consistency_king"  -> [points |-> 3000, req |-> "daily_streak", value |-> 30]
        [] a = "silver_status"     -> [points |-> 0,    req |-> "tier", value |-> "Silver"]
        [] a = "golden_giver"      -> [points |-> 0,    req |-> "tier", value |-> "Gold"]
        [] a = "platinum_plus"     -> [points |-> 0,    req |-> "tier", value |-> "Platinum"]
        [] a = "diamond_dynasty"   -> [points |-> 0,    req |-> "tier", value |-> "Diamond"]
        [] a = "social_sharer"     -> [points |-> 500,  req |-> "social_shares", value |-> 10]
        [] a = "referral_champion" -> [points |-> 2500, req |-> "referrals", value |-> 5] ]

\* a users document; has_achievements tells whether the key 'achievements' is set
PsUserDoc(total_donations, has_achievements) ==
  [ total_points |-> 0, total_donations |-> total_donations, tier |-> "Bronze",
    current_streak |-> 0, unique_locations |-> 0, social_shares |-> 0, referrals |-> 0,
    has_achievements |-> has_achievements, achievements |-> << >> ]

PsNoLocals ==
  [ transaction |-> [user_id |-> "", points |-> 0, donation_amount |-> 0],
    user_data |-> PsUserDoc(0, FALSE),
    new_total |-> 0,
    unlocked_achievements |-> << >>,
    i |-> 0,
    user_achievements |-> << >> ]

\* no award_points call was made
PsNoCalls ==
  /\ ps_transactions = << >>
  /\ ps_user_achievements = << >>
  /\ ps_pc = [p \in PsProcs |-> "idle"]
  /\ ps_loc = [p \in PsProcs |-> PsNoLocals]
  /\ ps_resp = [p \in PsProcs |-> "none"]
  /\ ps_nreq = 0

PsInit ==
  /\ ps_users = [u \in PsUsers |-> PsUserDoc(0, FALSE)]
  /\ PsNoCalls

\* AchievementEngine._check_requirements for the one requirement of a definition;
\* a key the chain of elif does not name is passed over
PsCheckRequirements(def, user_stats, recent_activity) ==
  CASE def.req = "donation_count"         -> ~(user_stats.total_donations < def.value)
    [] def.req = "single_donation_amount" -> ~(recent_activity.donation_amount < def.value)
    [] def.req = "unique_locations"       -> ~(user_stats.unique_locations < def.value)
    [] def.req = "daily_streak"           -> ~(user_stats.current_streak < def.value)
    [] def.req = "tier"                   -> ~(user_stats.tier # def.value)
    [] def.req = "social_shares"          -> ~(user_stats.social_shares < def.value)
    [] def.req = "referrals"              -> ~(user_stats.referrals < def.value)
    [] OTHER                              -> TRUE

\* user_stats.get('achievements', [])
PsGetAchievements(user_stats) ==
  IF user_stats.has_achievements THEN user_stats.achievements ELSE << >>

\* AchievementEngine.check_achievements: the ids of the newly unlocked achievements
PsCheckAchievements(user_stats, recent_activity) ==
  SelectSeq(PsCatalogOrder,
            LAMBDA a :
              /\ \A k \in DOMAIN PsGetAchievements(user_stats) :
                   PsGetAchievements(user_stats)[k] # a
              /\ PsCheckRequirements(achievement_definitions[a], user_stats,
                                     recent_activity))

\* the call returns: lines 472-487
PsReturn(p, status) ==
  /\ ps_resp' = [ps_resp EXCEPT ![p] = status]
  /\ ps_pc' = [ps_pc EXCEPT ![p] = "idle"]

\* lines 413-427: the request arrives; user_doc_ref.get(); new_total
PsGet(p) ==
  /\ backend = "points_service"
  /\ ps_pc[p] = "idle"
  /\ ps_nreq < MaxAwards
  /\ ps_nreq' = ps_nreq + 1
  /\ \E u \in PsUserIds, points \in PsPoints, amount \in PsAmounts :
       IF u \in DOMAIN ps_users
         THEN /\ ps_loc' = [ps_loc EXCEPT ![p] =
                   [PsNoLocals EXCEPT
                      !.transaction = [user_id |-> u, points |-> points,
                                       donation_amount |-> amount],
                      !.user_data = ps_users[u],
                      !.new_total = ps_users[u].total_points + points]]
              /\ ps_pc' = [ps_pc EXCEPT ![p] = "update_points"]
              /\ ps_resp' = [ps_resp EXCEPT ![p] = "pending"]
         ELSE /\ PsReturn(p, "404")
              /\ ps_loc' = [ps_loc EXCEPT ![p] = PsNoLocals]
  /\ UNCHANGED << ps_users, ps_transactions, ps_user_achievements >>
  /\ UNCHANGED << dbvars, now, pc, loc, resp, tasks, nreq, ebvars, call, restvars >>

\* lines 429-433: user_doc_ref.update({'total_points': new_total})
PsUpdatePoints(p) ==
  /\ ps_pc[p] = "update_points"
  /\ ps_users' = [ps_users EXCEPT ![ps_loc[p].transaction.user_id].total_points =
                    ps_loc[p].new_total]
  /\ ps_pc' = [ps_pc EXCEPT ![p] = "add_transaction"]
  /\ UNCHANGED << ps_transactions, ps_user_achievements, ps_loc, ps_resp, ps_nreq >>
  /\ UNCHANGED << dbvars, now, pc, loc, resp, tasks, nreq, ebvars, call, restvars >>

\* lines 435-452: points_transactions.add(transaction_record), then
\* check_achievements(user_id, user_data, recent_activity), which has no
\* Firestore call of its own
PsAddTransaction(p) ==
  /\ ps_pc[p] = "add_transaction"
  /\ ps_transactions' = Append(ps_transactions,
       [ user_id |-> ps_loc[p].transaction.user_id,
         points |-> ps_loc[p].transaction.points,
         running_total |-> ps_loc[p].new_total ])
  /\ LET unlocked == PsCheckAchievements(ps_loc[p].user_data, ps_loc[p].transaction)
     IN IF unlocked = << >>
          THEN /\ PsReturn(p, "200")
               /\ ps_loc' = [ps_loc EXCEPT ![p] = PsNoLocals]
          ELSE /\ ps_loc' = [ps_loc EXCEPT ![p].unlocked_achievements = unlocked,
                                           ![p].i = 1]
               /\ ps_pc' = [ps_pc EXCEPT ![p] = "add_achievement"]
               /\ UNCHANGED ps_resp
  /\ UNCHANGED << ps_users, ps_user_achievements, ps_nreq >>
  /\ UNCHANGED << dbvars, now, pc, loc, resp, tasks, nreq, ebvars, call, restvars >>

\* lines 455-470: user_achievements.add({...}) for achievement i, then
\* user_achievements = user_data.get('achievements', []) and the append: the
\* list of user_data when the key is set, a new list otherwise
PsAddAchievement(p) ==
  /\ ps_pc[p] = "add_achievement"
  /\ LET a == ps_loc[p].unlocked_achievements[ps_loc[p].i]
         user_achievements == Append(PsGetAchievements(ps_loc[p].user_data), a)
     IN /\ ps_user_achievements' = Append(ps_user_achievements,
             [ user_id |-> ps_loc[p].transaction.user_id,
               achievement_id |-> a,
               points |-> achievement_definitions[a].points ])
        /\ ps_loc' = [ps_loc EXCEPT
             ![p].user_achievements = user_achievements,
             ![p].user_data = IF @.has_achievements
                                THEN [@ EXCEPT !.achievements = user_achievements]
                                ELSE @]
  /\ ps_pc' = [ps_pc EXCEPT ![p] = "update_achievements"]
  /\ UNCHANGED << ps_users, ps_transactions, ps_resp, ps_nreq >>
  /\ UNCHANGED << dbvars, now, pc, loc, resp, tasks, nreq, ebvars, call, restvars >>

\* lines 467-470: user_doc_ref.update({'achievements': user_achievements}); the
\* next turn of the loop, or the return
PsUpdateAchievements(p) ==
  /\ ps_pc[p] = "update_achievements"
  /\ ps_users' = [ps_users EXCEPT ![ps_loc[p].transaction.user_id] =
                    [@ EXCEPT !.has_achievements = TRUE,
                              !.achievements = ps_loc[p].user_achievements]]
  /\ IF ps_loc[p].i < Len(ps_loc[p].unlocked_achievements)
       THEN /\ ps_loc' = [ps_loc EXCEPT ![p].i = @ + 1]
            /\ ps_pc' = [ps_pc EXCEPT ![p] = "add_achievement"]
            /\ UNCHANGED ps_resp
       ELSE /\ PsReturn(p, "200")
            /\ ps_loc' = [ps_loc EXCEPT ![p] = PsNoLocals]
  /\ UNCHANGED << ps_transactions, ps_user_achievements, ps_nreq >>
  /\ UNCHANGED << dbvars, now, pc, loc, resp, tasks, nreq, ebvars, call, restvars >>

\* python goodwill_gym_backend.py
(***************************************************************************)
(* Functions called on their own: calculate_points, the streak rule of     *)
(* make_donation, the threshold table of update_user_tier and              *)
(* PointsCalculationEngine._calculate_tier_progression of the donation     *)
(* service.  The variable call holds the arguments, then the result.       *)
(***************************************************************************)
FnItems == DOMAIN item_catalog \cup {"Gadget"}
FnQuantities == {1, 2, 45}
FnDays == 0..3
FnStreaks == 0..2
FnTotals == {0, 999, 1000, 1999, 2000, 4999, 5000, 9999, 10000, 14999, 15000, 49999, 50000}

\* fix_missing_items.py lines 26-44, for the modelled storages
FixRequests ==
  << [storage_id |-> 1, item_name |-> "Winter Coats", bonus_points |-> 75, fulfilled |-> FALSE],
     [storage_id |-> 2, item_name |-> "Baby Formula", bonus_points |-> 100, fulfilled |-> FALSE] >>

\* the seeded requests once donations have fulfilled them
FulfilledRequests ==
  [ i \in DOMAIN SeedRequests |-> [SeedRequests[i] EXCEPT !.fulfilled = TRUE] ]

FnRequestTables == {SeedRequests, FixRequests, FulfilledRequests}

\* services/donation-service/main.py _calculate_tier_progression
DsTierOf(total_points) ==
  IF total_points >= 50000 THEN "Diamond"
  ELSE IF total_points >= 15000 THEN "Platinum"
  ELSE IF total_points >= 5000 THEN "Gold"
  ELSE IF total_points >= 1000 THEN "Silver"
  ELSE "Bronze"

CalcCalls ==
  [ fn : {"calculate_points"}, item_name : FnItems, quantity : FnQuantities,
    is_missing_item : BOOLEAN, requests : FnRequestTables, done : {FALSE},
    result : {[base_points |-> 0, bonus_points |-> 0, total_points |-> 0]} ]

StreakCalls ==
  { c \in [ fn : {"new_streak"}, streak_days : FnStreaks,
            last_donation_date : {NoDate} \cup FnDays, today : FnDays,
            done : {FALSE}, result : {0} ] :
      c.last_donation_date <= c.today }

TierCalls ==
  [ fn : {"update_user_tier", "_calculate_tier_progression"}, total_points : FnTotals,
    done : {FALSE}, result : {""} ]

FnCalls == CalcCalls \cup StreakCalls \cup TierCalls

FnUnchanged ==
  UNCHANGED << dbvars, now, pc, loc, resp, tasks, nreq, ebvars, psvars, restvars >>

\* calculate_points(item_name, quantity, is_missing_item)
CallCalculatePoints ==
  /\ call.fn = "calculate_points" /\ ~call.done
  /\ call' = [call EXCEPT !.done = TRUE,
                          !.result = calculate_points(call.item_name, call.quantity,
                                                      call.is_missing_item, call.requests)]
  /\ FnUnchanged

\* make_donation lines 445-458
CallNewStreak ==
  /\ call.fn = "new_streak" /\ ~call.done
  /\ call' = [call EXCEPT !.done = TRUE,
                          !.result = NewStreak(call, call.today)]
  /\ FnUnchanged

\* update_user_tier lines 164-173
CallTierOf ==
  /\ call.fn = "update_user_tier" /\ ~call.done
  /\ call' = [call EXCEPT !.done = TRUE, !.result = TierOf(call.total_points)]
  /\ FnUnchanged

\* _calculate_tier_progression(total_points)
CallTierProgression ==
  /\ call.fn = "_calculate_tier_progression" /\ ~call.done
  /\ call' = [call EXCEPT !.done = TRUE, !.result = DsTierOf(call.total_points)]
  /\ FnUnchanged

(***************************************************************************)
(* services/donation-service/main.py: create_donation works on Firestore   *)
(* through an async client, one action per awaited Firestore call.  Every  *)
(* request is authenticated as the same user (get_current_user).  The      *)
(* donations are monetary, not recurring and without location.             *)
(***************************************************************************)
MaxDsRequests == 2
DsProcs == {1, 2}
\* DonationRequest.amount, and _get_seasonal_bonus() in tenths (off season,
\* holiday season)
DsAmounts == {100, 1000}
DsSeasons == {10, 20}

DsNoLocals ==
  [ donation_id |-> 0, amount |-> 0, seasonal_bonus |-> 10,
    user_profile |-> [tier |-> "Bronze", total_points |-> 0, total_donations |-> 0] ]

\* nothing stored, no call in progress
DsInit ==
  /\ ds_users = [exists |-> FALSE, tier |-> "Bronze", total_points |-> 0,
                 total_donations |-> 0]
  /\ ds_donations = << >>
  /\ ds_pc = [p \in DsProcs |-> "idle"]
  /\ ds_loc = [p \in DsProcs |-> DsNoLocals]
  /\ ds_nreq = 0

\* TIER_MULTIPLIERS.get(tier, 1.0), in tenths
DsTierMultiplier(tier) ==
  CASE tier = "Silver"   -> 11
    [] tier = "Gold"     -> 12
    [] tier = "Platinum" -> 13
    [] tier = "Diamond"  -> 15
    [] OTHER             -> 10

\* PointsCalculationEngine.calculate_points for a monetary donation.  The
\* float products int(amount * 1.5) and int(base_points * total_multiplier)
\* are the exact ones for the amounts, tiers and bonuses of this model (a
\* first donation is never made at the Gold tier).
DsCalculatePoints(amount, seasonal_bonus, user_profile) ==
  LET base_points      == (amount * 15) \div 10
      first_time_bonus == IF user_profile.total_donations = 0 THEN 3 ELSE 1
      final_points     == (base_points * DsTierMultiplier(user_profile.tier)
                             * first_time_bonus * seasonal_bonus) \div 100
      new_total        == user_profile.total_points + final_points
      new_tier         == DsTierOf(new_total)
  IN [ points_awarded   |-> final_points,
       new_tier         |-> IF new_tier # user_profile.tier THEN new_tier ELSE "None",
       total_points     |-> new_total,
       tier_progression |-> new_tier # user_profile.tier ]

\* lines 370-391: the request arrives; doc_ref.set(donation_data)
DsSetDonation(p) ==
  /\ backend = "donation_service"
  /\ ds_pc[p] = "idle"
  /\ ds_nreq < MaxDsRequests
  /\ ds_nreq' = ds_nreq + 1
  /\ \E amount \in DsAmounts, seasonal_bonus \in DsSeasons :
       /\ ds_donations' = Append(ds_donations,
            [ user_id |-> "user_12345", amount |-> amount, status |-> "processing",
              points_awarded |-> NULL, tier_progression |-> FALSE ])
       /\ ds_loc' = [ds_loc EXCEPT ![p] =
            [DsNoLocals EXCEPT !.donation_id = Len(ds_donations) + 1,
                               !.amount = amount, !.seasonal_bonus = seasonal_bonus]]
  /\ ds_pc' = [ds_pc EXCEPT ![p] = "get_profile"]
  /\ UNCHANGED << ds_users >>
  /\ UNCHANGED << dbvars, now, pc, loc, resp, tasks, nreq, ebvars, call, psvars, agentvars, fbvars >>

\* get_user_profile lines 323-328: doc_ref.get()
DsGetProfile(p) ==
  /\ ds_pc[p] = "get_profile"
  /\ IF ds_users.exists
       THEN /\ ds_loc' = [ds_loc EXCEPT ![p].user_profile =
                            [ tier |-> ds_users.tier, total_points |-> ds_users.total_points,
                              total_donations |-> ds_users.total_donations ]]
            /\ ds_pc' = [ds_pc EXCEPT ![p] = "update_user"]
       ELSE /\ ds_pc' = [ds_pc EXCEPT ![p] = "create_profile"]
            /\ UNCHANGED ds_loc
  /\ UNCHANGED << ds_users, ds_donations, ds_nreq >>
  /\ UNCHANGED << dbvars, now, pc, loc, resp, tasks, nreq, ebvars, call, psvars, agentvars, fbvars >>

\* get_user_profile lines 329-339: doc_ref.set(default_profile)
DsCreateProfile(p) ==
  /\ ds_pc[p] = "create_profile"
  /\ ds_users' = [exists |-> TRUE, tier |-> "Bronze", total_points |-> 0,
                  total_donations |-> 0]
  /\ ds_loc' = [ds_loc EXCEPT ![p].user_profile =
                  [tier |-> "Bronze", total_points |-> 0, total_donations |-> 0]]
  /\ ds_pc' = [ds_pc EXCEPT ![p] = "update_user"]
  /\ UNCHANGED << ds_donations, ds_nreq >>
  /\ UNCHANGED << dbvars, now, pc, loc, resp, tasks, nreq, ebvars, call, psvars, agentvars, fbvars >>

\* lines 396-414: calculate_points; users document update.  points_result
\* always holds the key 'new_tier', so .get('new_tier', ...) never takes its
\* default
DsUpdateUser(p) ==
  /\ ds_pc[p] = "update_user"
  /\ LET points_result == DsCalculatePoints(ds_loc[p].amount, ds_loc[p].seasonal_bonus,
                                            ds_loc[p].user_profile)
     IN ds_users' = [ds_users EXCEPT
                       !.total_points    = points_result.total_points,
                       !.total_donations = ds_loc[p].user_profile.total_donations + 1,
                       !.tier            = points_result.new_tier]
  /\ ds_pc' = [ds_pc EXCEPT ![p] = "update_donation"]
  /\ UNCHANGED << ds_donations, ds_loc, ds_nreq >>
  /\ UNCHANGED << dbvars, now, pc, loc, resp, tasks, nreq, ebvars, call, psvars, agentvars, fbvars >>

\* lines 416-456: doc_ref.update of the donation with the points; the
\* broadcast, the background tasks and the return write nothing to the store
DsUpdateDonation(p) ==
  /\ ds_pc[p] = "update_donation"
  /\ LET points_result == DsCalculatePoints(ds_loc[p].amount, ds_loc[p].seasonal_bonus,
                                            ds_loc[p].user_profile)
     IN ds_donations' = [ds_donations EXCEPT ![ds_loc[p].donation_id] =
                           [@ EXCEPT !.points_awarded = points_result.points_awarded,
                                     !.tier_progression = points_result.tier_progression,
                                     !.status = "completed"]]
  /\ ds_pc' = [ds_pc EXCEPT ![p] = "idle"]
  /\ ds_loc' = [ds_loc EXCEPT ![p] = DsNoLocals]
  /\ UNCHANGED << ds_users, ds_nreq >>
  /\ UNCHANGED << dbvars, now, pc, loc, resp, tasks, nreq, ebvars, call, psvars, agentvars, fbvars >>

(***************************************************************************)
(* fast_backend.py.  The handlers are coroutines without an await and the  *)
(* server is one process (uvicorn.run(app) at the end of the file), so     *)
(* each handler runs from its first line to its last with no other         *)
(* handler in between.  The backend works on the database file of          *)
(* goodwill_gym_backend.  process_donation is imported from database.py,   *)
(* which does not hold it: it is the DonationProcessor of the              *)
(* specification, one atomic transition per donation.                      *)
(***************************************************************************)
FbNoUsers ==
  [u \in Users |-> [tier |-> "bronze", total_points |-> 0, total_donations |-> 0,
                    streak_days |-> 0, last_donation_date |-> NoDate]]

FbNoStorages == [s \in Storages |-> [gym_leader_id |-> NULL, gym_leader_points |-> 0]]

\* both caches empty
FbInit ==
  /\ fb_cached_users = [filled |-> FALSE, rows |-> FbNoUsers]
  /\ fb_cached_storages = [filled |-> FALSE, rows |-> FbNoStorages]

\* cache_clear() left without effect
CacheClearKeeps(empty_rows, cache) == cache

\* functools.lru_cache: cache_clear()
cache_clear(empty_rows, cache) == [filled |-> FALSE, rows |-> empty_rows]

\* functools.lru_cache around a function without arguments: the stored
\* result, or the result of the query, which is stored
lru_cache(cache, rows) ==
  IF cache.filled THEN cache ELSE [filled |-> TRUE, rows |-> rows]

FbInputs ==
  [user_id : UserIds, storage_id : Storages, item_name : {"Winter Coats"}, quantity : {40}]

\* process_donation(user_id, storage_id, item_name, quantity): the tables
\* after the donation is validated, scored and persisted with the donor's
\* totals, streak and tier
process_donation(d) ==
  LET is_missing_item == is_missing(d, storage_inventory)
      l == [NoLocals EXCEPT
              !.donation = d,
              !.user = UserRow(d.user_id),
              !.is_missing_item = is_missing_item,
              !.points_data = calculate_points(d.item_name, d.quantity, is_missing_item,
                                               missing_items_requests)]
  IN [ donations |-> Append(donations, DonationRow(l)),
       users |-> [users EXCEPT ![d.user_id] =
                    [UpdatedUser(@, l, today) EXCEPT
                       !.tier = TierOf(NewTotalPoints(l.user, l.points_data))]],
       storage_inventory |-> UpdatedInventory(storage_inventory, d),
       missing_items_requests |-> UpdatedRequests(missing_items_requests, l) ]

\* POST /donate, lines 279-341: process_donation, update_gym_leader (an
\* exception of it is logged and passed over), both caches cleared, the
\* notification and the response; an exception of process_donation gives 500
FbDonate ==
  /\ backend = "fast_backend"
  /\ nreq < MaxRequests
  /\ nreq' = nreq + 1
  /\ \E d \in FbInputs :
       IF d.user_id \in DOMAIN users
         THEN /\ donations' = process_donation(d).donations
              /\ users' = process_donation(d).users
              /\ storage_inventory' = process_donation(d).storage_inventory
              /\ missing_items_requests' = process_donation(d).missing_items_requests
              /\ \/ UNCHANGED storages
                 \/ \E r \in TopRows(d.storage_id, process_donation(d).donations) :
                      storages' = [storages EXCEPT ![d.storage_id] =
                                     [gym_leader_id |-> r.user_id,
                                      gym_leader_points |-> r.total_points]]
              /\ fb_cached_users' = cache_clear(FbNoUsers, fb_cached_users)
              /\ fb_cached_storages' = cache_clear(FbNoStorages, fb_cached_storages)
         ELSE UNCHANGED << dbvars, fbvars >>
  /\ UNCHANGED << now, pc, loc, resp, tasks, ebvars, call, psvars, agentvars, dsvars >>

FbEndpoints == {"/users", "/leaderboard", "/stats", "/storages"}

\* GET /users (189-196), /storages (236-243), /leaderboard (367-389) and
\* /stats (424-451): served from get_cached_users() and get_cached_storages()
FbRead(endpoint) ==
  /\ backend = "fast_backend"
  /\ fb_cached_users' = IF endpoint # "/storages"
                          THEN lru_cache(fb_cached_users, users)
                          ELSE fb_cached_users
  /\ fb_cached_storages' = IF endpoint \in {"/storages", "/stats"}
                             THEN lru_cache(fb_cached_storages, storages)
                             ELSE fb_cached_storages
  /\ UNCHANGED << dbvars, now, pc, loc, resp, tasks, nreq, ebvars, call, psvars,
                  agentvars, dsvars >>

\* clear_caches lines 141-146: every 30 seconds
FbClearCaches ==
  /\ backend = "fast_backend"
  /\ fb_cached_users' = cache_clear(FbNoUsers, fb_cached_users)
  /\ fb_cached_storages' = cache_clear(FbNoStorages, fb_cached_storages)
  /\ UNCHANGED << dbvars, now, pc, loc, resp, tasks, nreq, ebvars, call, psvars,
                  agentvars, dsvars >>

\* POST /force-update-gym-leaders lines 343-365: update_gym_leader for every
\* storage, then get_cached_storages.cache_clear()
FbForceUpdate ==
  /\ backend = "fast_backend"
  /\ \E leader \in [Storages -> Users \cup {NULL}] :
       /\ \A s \in Storages :
            IF LeaderRows(s, donations) = {}
              THEN leader[s] = NULL
              ELSE leader[s] \in { r.user_id : r \in TopRows(s, donations) }
       /\ storages' = [s \in Storages |->
            IF leader[s] = NULL THEN storages[s]
            ELSE [gym_leader_id |-> leader[s],
                  gym_leader_points |-> PointsAt(s, leader[s], donations)]]
  /\ fb_cached_storages' = cache_clear(FbNoStorages, fb_cached_storages)
  /\ UNCHANGED << users, donations, storage_inventory, missing_items_requests,
                  fb_cached_users >>
  /\ UNCHANGED << now, pc, loc, resp, tasks, nreq, ebvars, call, psvars, agentvars, dsvars >>

\* the services in the state their modules construct
RestInit ==
  /\ message_templates = "intact"
  /\ DsInit
  /\ FbInit

\* no function is called on its own
NoCall == [fn |-> "none"]

Init ==
  /\ InitStore
  /\ backend = "goodwill_gym_backend"
  /\ call = NoCall
  /\ PsInit
  /\ RestInit

\* either backend is launched
InitSeq ==
  /\ InitStore
  /\ backend \in {"goodwill_gym_backend", "enhanced_backend"}
  /\ call = NoCall
  /\ PsInit
  /\ RestInit

\* no make_donation call is in progress
AllIdle == \A p \in Procs : pc[p] = "idle"

\* no call is in progress and no background task is left
Quiet ==
  /\ \A p \in Procs : pc[p] = "idle"
  /\ \A t \in TaskIds : tasks[t] = NoTask

\* a request arrives, MaxRequests of them at most
Receive(p) == nreq < MaxRequests /\ SelectUser(p)

Next ==
  \/ \E p \in Procs : Receive(p)
  \/ \E p \in Procs : SelectStorage(p)
  \/ \E p \in Procs : CheckMissing(p)
  \/ \E p \in Procs : CalculatePoints(p)
  \/ \E p \in Procs : CommitDonation(p)
  \/ \E p \in Procs : DonationFails(p)
  \/ \E p \in Procs : TierSelect(p)
  \/ \E p \in Procs : TierUpdate(p)
  \/ \E p \in Procs : Respond(p)
  \/ \E t \in TaskIds : LeaderSelect(t)
  \/ \E t \in TaskIds : LeaderUpdate(t)

Spec == Init /\ [][Next]_vars

\* one request at a time, each with its background task, the clock moving
\* between requests; both backends
\* (a donation of quantity 0 adds an empty row and is left to Spec)
SeqSelectUser == Quiet /\ Receive(1) /\ loc'[1].donation.quantity # 0

SeqTick == Quiet /\ Tick

SeqCreateDonation == Quiet /\ EbCreateDonation

SeqNext ==
  \/ SeqSelectUser
  \/ \E p \in Procs : SelectStorage(p)
  \/ \E p \in Procs : CheckMissing(p)
  \/ \E p \in Procs : CalculatePoints(p)
  \/ \E p \in Procs : CommitDonation(p)
  \/ \E p \in Procs : DonationFails(p)
  \/ \E p \in Procs : TierSelect(p)
  \/ \E p \in Procs : TierUpdate(p)
  \/ \E p \in Procs : Respond(p)
  \/ \E t \in TaskIds : LeaderSelect(t)
  \/ \E t \in TaskIds : LeaderUpdate(t)
  \/ SeqTick
  \/ SeqCreateDonation

SpecSeq == InitSeq /\ [][SeqNext]_vars

\* a function called on its own, the arguments drawn from the sets above
InitFn ==
  /\ InitStore
  /\ backend = "goodwill_gym_backend"
  /\ call \in FnCalls
  /\ PsInit
  /\ RestInit

FnNext ==
  \/ CallCalculatePoints
  \/ CallNewStreak
  \/ CallTierOf
  \/ CallTierProgression

SpecFn == InitFn /\ [][FnNext]_vars

\* one donor giving the same item at the same storage in concurrent calls,
\* the date changing at any moment
DayInputs ==
  [user_id : {1}, storage_id : {1}, item_name : {"Winter Coats"}, quantity : {40}]

DayReceive(p) ==
  /\ nreq < MaxDayRequests
  /\ SelectUser(p)
  /\ loc'[p].donation \in DayInputs

DayNext ==
  \/ \E p \in Procs : DayReceive(p)
  \/ \E p \in Procs : SelectStorage(p)
  \/ \E p \in Procs : CheckMissing(p)
  \/ \E p \in Procs : CalculatePoints(p)
  \/ \E p \in Procs : CommitDonation(p)
  \/ \E p \in Procs : DonationFails(p)
  \/ \E p \in Procs : TierSelect(p)
  \/ \E p \in Procs : TierUpdate(p)
  \/ \E p \in Procs : Respond(p)
  \/ \E t \in TaskIds : LeaderSelect(t)
  \/ \E t \in TaskIds : LeaderUpdate(t)
  \/ Tick

SpecDay == Init /\ [][DayNext]_vars

\* one donor, one request at a time, any collaborator failing: the message
\* templates of the agent intact or broken, the statements of calculate_points,
\* update_user_tier and update_gym_leader raising or not
InitFault ==
  /\ InitStore
  /\ backend = "goodwill_gym_backend"
  /\ call = NoCall
  /\ PsInit
  /\ message_templates \in {"intact", "broken"}
  /\ DsInit
  /\ FbInit

FaultInputs ==
  [user_id : {1}, storage_id : Storages, item_name : ReqItems, quantity : {40}]

FaultReceive ==
  /\ Quiet
  /\ Receive(1)
  /\ loc'[1].donation \in FaultInputs

FaultNext ==
  \/ FaultReceive
  \/ \E p \in Procs : SelectStorage(p)
  \/ \E p \in Procs : CheckMissing(p)
  \/ \E p \in Procs : CalculatePoints(p)
  \/ \E p \in Procs : ScoringFails(p)
  \/ \E p \in Procs : CommitDonation(p)
  \/ \E p \in Procs : DonationFails(p)
  \/ \E p \in Procs : TierSelect(p)
  \/ \E p \in Procs : TierUpdate(p)
  \/ \E p \in Procs : TierFails(p)
  \/ \E p \in Procs : Respond(p)
  \/ \E t \in TaskIds : LeaderSelect(t)
  \/ \E t \in TaskIds : LeaderUpdate(t)
  \/ \E t \in TaskIds : LeaderFails(t)

SpecFault == InitFault /\ [][FaultNext]_vars

\* fast_backend, its handlers one after another
InitFast ==
  /\ InitStore
  /\ backend = "fast_backend"
  /\ call = NoCall
  /\ PsInit
  /\ RestInit

FastNext ==
  \/ FbDonate
  \/ \E endpoint \in FbEndpoints : FbRead(endpoint)
  \/ FbClearCaches
  \/ FbForceUpdate
  \/ Tick

SpecFast == InitFast /\ [][FastNext]_vars

\* the donation service
InitDonation ==
  /\ InitStore
  /\ backend = "donation_service"
  /\ call = NoCall
  /\ PsInit
  /\ RestInit

DonationNext ==
  \/ \E p \in DsProcs : DsSetDonation(p)
  \/ \E p \in DsProcs : DsGetProfile(p)
  \/ \E p \in DsProcs : DsCreateProfile(p)
  \/ \E p \in DsProcs : DsUpdateUser(p)
  \/ \E p \in DsProcs : DsUpdateDonation(p)

SpecDonation == InitDonation /\ [][DonationNext]_vars

\* the points service, its users collection as another service left it
InitPoints ==
  /\ InitStore
  /\ backend = "points_service"
  /\ call = NoCall
  /\ PsNoCalls
  /\ ps_users \in [PsUsers -> { PsUserDoc(n, h) : n \in {0, 1}, h \in BOOLEAN }]
  /\ RestInit

PointsNext ==
  \/ \E p \in PsProcs : PsGet(p)
  \/ \E p \in PsProcs : PsUpdatePoints(p)
  \/ \E p \in PsProcs : PsAddTransaction(p)
  \/ \E p \in PsProcs : PsAddAchievement(p)
  \/ \E p \in PsProcs : PsUpdateAchievements(p)

SpecPoints == InitPoints /\ [][PointsNext]_vars


(***************************************************************************)
(* Properties                                                              *)
(***************************************************************************)
\* every recorded donation has a positive quantity
PositiveLedger == \A i \in DOMAIN donations : donations[i].quantity > 0

\* sum of a column of the donations of one user
LedgerSum(ledger, user_id, col(_)) ==
  LET sum[n \in 0..Len(ledger)] ==
        IF n = 0 THEN 0
        ELSE sum[n - 1] + (IF ledger[n].user_id = user_id THEN col(ledger[n]) ELSE 0)
  IN sum[Len(ledger)]

PointsAwarded(row) == row.points_awarded
PointsPlusBonus(row) == row.points_awarded + row.bonus_points

C2_TotalIsPointsPlusBonus ==
  (backend = "goodwill_gym_backend" /\ PositiveLedger) =>
    \A u \in Users : users[u].total_points = LedgerSum(donations, u, PointsPlusBonus)

\* C2 as amended: with the donations processed one after another, the user's
\* total_points is the sum of points_awarded alone, which already contains
\* the bonus.
C2_TotalIsPointsAwarded ==
  backend = "goodwill_gym_backend" =>
    \A u \in Users : users[u].total_points = LedgerSum(donations, u, PointsAwarded)

\* a donation with a missing-item bonus has been recorded and its call is over
C2_Witness ==
  /\ Quiet
  /\ \E i \in DOMAIN donations : donations[i].bonus_points > 0

\* C3: with the donations processed one after another, in either backend
\* every user's total_points is the sum of points_awarded over the user's
\* donations plus the rewards of the achievements in the user's unlocked set.
EbAchievementSet(u) ==
  { eb_user_achievements[u][i] : i \in DOMAIN eb_user_achievements[u] }

C3_TotalsMatchLedgerAndRewards ==
  /\ \A u \in Users :
       users[u].total_points = LedgerSum(donations, u, PointsAwarded)
  /\ \A u \in EbUsers :
       eb_users[u].total_points =
         LedgerSum(eb_donations, u, PointsAwarded)
           + SumSeq(achievements_catalog, EbAchievementSet(u))

\* an enhanced_backend user holds several achievements after two donations
C3_Witness ==
  \E u \in EbUsers :
    /\ Cardinality(EbAchievementSet(u)) >= 3
    /\ eb_users[u].total_donations = 2

\* C4: no step lowers a user's total_points.
C4_TotalNeverDecreases ==
  [][\A u \in Users : users'[u].total_points >= users[u].total_points]_vars

\* C5: at every instant the recorded leader of a storage is a donor with the
\* maximal aggregated points there, and is null when the storage has no
\* donation.
LeaderRecord(s) ==
  [user_id |-> storages[s].gym_leader_id, total_points |-> storages[s].gym_leader_points]

C5_LeaderAlwaysMax ==
  \A s \in Storages :
    IF DonorsAt(s, donations) = {}
      THEN storages[s].gym_leader_id = NULL
      ELSE storages[s].gym_leader_id \in
             { r.user_id : r \in TopRows(s, donations) }

\* C6: when donors tie for the maximum, the recorded leader is the one who
\* reached that total first; a later donor who only equals it does not
\* displace the leader.
RunningAt(s, u, k) ==
  SumSeq([i \in DOMAIN donations |-> donations[i].points_awarded],
         { j \in 1..k : donations[j].storage_id = s /\ donations[j].user_id = u })

\* index of the donation with which u reached the total u holds at s
ReachIndex(s, u) ==
  CHOOSE k \in DOMAIN donations :
    /\ donations[k].storage_id = s /\ donations[k].user_id = u
    /\ \A j \in k..Len(donations) : RunningAt(s, u, j) = PointsAt(s, u, donations)
    /\ \A m \in 1..(k-1) :
         ~ ( /\ donations[m].storage_id = s /\ donations[m].user_id = u
             /\ \A j \in m..Len(donations) :
                  RunningAt(s, u, j) = PointsAt(s, u, donations) )

FirstToReach(s) ==
  CHOOSE u \in { r.user_id : r \in TopRows(s, donations) } :
    \A v \in { r.user_id : r \in TopRows(s, donations) } :
      ReachIndex(s, u) <= ReachIndex(s, v)

C6_TieKeepsFirstToReach ==
  (backend = "goodwill_gym_backend" /\ Quiet /\ PositiveLedger) =>
    \A s \in Storages :
      DonorsAt(s, donations) # {} => storages[s].gym_leader_id = FirstToReach(s)

\* C7: once every donation to a storage by different donors and every
\* update_gym_leader run have completed, the recorded leader and points are
\* the ones the aggregation of the ledger gives.
DistinctDonors(s) ==
  \A i, j \in DOMAIN donations :
    (i # j /\ donations[i].storage_id = s /\ donations[j].storage_id = s)
      => donations[i].user_id # donations[j].user_id

C7_LeaderMatchesLedgerWhenQuiet ==
  (Quiet /\ PositiveLedger) => \A s \in Storages :
    (DonorsAt(s, donations) # {} /\ DistinctDonors(s))
      => LeaderRecord(s) \in TopRows(s, donations)

\* C8: the stored tier is never behind the stored total: the Donation row,
\* the new total and the tier for that total become visible together.
C8_TierCommittedWithTotal ==
  \A u \in Users : users[u].tier = TierOf(users[u].total_points)

\* C9: a request naming an unknown user or storage is answered 404, no step
\* of its call changes a table or queues a leader update, and no call gets
\* past validation with an unknown id.
ValidationStep(p) ==
  \/ pc[p] = "idle" /\ (pc'[p] = "select_storage" \/ resp'[p] = "404") /\ nreq' # nreq
  \/ pc[p] = "select_storage" /\ pc'[p] # "select_storage"

C10_NoNonPositiveQuantityRecorded ==
  \A i \in DOMAIN donations : donations[i].quantity > 0

\* C11: a donation of an item with no item_catalog entry, by an existing user
\* to an existing storage with a positive quantity, is scored 10 points per
\* unit with no bonus, its call ends with 200 unless the database itself
\* fails (500), and its commit appends a Donation row with that score and
\* raises the user's total by it.
UncataloguedCall(p) ==
  /\ loc[p].donation.item_name \notin DOMAIN item_catalog
  /\ loc[p].donation.quantity > 0
  /\ loc[p].donation.user_id \in Users
  /\ loc[p].donation.storage_id \in Storages

DefaultScore(p) == DefaultBasePoints * loc[p].donation.quantity

C11_UnknownItemScoredWithDefault ==
  [][ \A p \in Procs : UncataloguedCall(p) =>
        /\ (pc[p] = "calculate" /\ pc'[p] # "calculate")
             => loc'[p].points_data =
                  [base_points |-> DefaultScore(p), bonus_points |-> 0,
                   total_points |-> DefaultScore(p)]
        /\ (pc[p] # "idle" /\ pc'[p] = "idle")
             => (resp'[p] = "200" \/ (pc[p] = "write" /\ resp'[p] = "500"))
        /\ (pc[p] = "write" /\ pc'[p] = "tier_select")
             => /\ Len(donations') = Len(donations) + 1
                /\ SubSeq(donations', 1, Len(donations)) = donations
                /\ donations'[Len(donations')].item_name = loc[p].donation.item_name
                /\ donations'[Len(donations')].points_awarded = DefaultScore(p)
                /\ users'[loc[p].donation.user_id].total_points =
                     users[loc[p].donation.user_id].total_points + DefaultScore(p)
    ]_vars

\* a donation of an uncatalogued item was recorded with 400 points for 40 units
C11_Witness ==
  /\ Quiet
  /\ \E i \in DOMAIN donations :
       /\ donations[i].item_name = "Gadget"
       /\ donations[i].quantity = 40
       /\ donations[i].points_awarded = 400
       /\ users[donations[i].user_id].total_points >= 400

\* C12: for a cataloged item and a positive quantity q, calculate_points
\* returns base_points = floor(catalog.base_points * q * demand_multiplier),
\* bonus_points = 0 when the item is not missing, and total_points =
\* base_points + bonus_points.
FloorOfProduct(item_name, quantity) ==
  (item_catalog[item_name].base_points * quantity
     * item_catalog[item_name].demand_multiplier) \div 10

C12_CalculatePointsIsFloor ==
  (call.fn = "calculate_points" /\ call.done /\ call.item_name \in DOMAIN item_catalog) =>
    /\ call.result.base_points = FloorOfProduct(call.item_name, call.quantity)
    /\ (~call.is_missing_item => call.result.bonus_points = 0)
    /\ call.result.total_points = call.result.base_points + call.result.bonus_points

\* C13: when a donation of item i at storage s is flagged as a missing item,
\* its bonus_points is the quantity times the highest bonus_points among the
\* unfulfilled requests for exactly (s, i), and 0 when (s, i) has none;
\* requests for the item at other storages do not count.
ScopedBonusRows(storage_id, item_name, mir) ==
  { mir[i].bonus_points : i \in { j \in DOMAIN mir :
        /\ mir[j].storage_id = storage_id
        /\ mir[j].item_name = item_name
        /\ ~mir[j].fulfilled } }

ScopedBonus(donation, mir) ==
  IF ScopedBonusRows(donation.storage_id, donation.item_name, mir) = {}
    THEN 0
    ELSE donation.quantity
           * SetMax(ScopedBonusRows(donation.storage_id, donation.item_name, mir))

C13_BonusScopedToStorageAndItem ==
  [][ \A p \in Procs :
        ( /\ pc[p] = "calculate" /\ pc'[p] = "write"
          /\ loc[p].is_missing_item
          /\ loc[p].donation.quantity > 0 )
          => loc'[p].points_data.bonus_points =
               ScopedBonus(loc[p].donation, missing_items_requests)
    ]_vars

CalendarRule(new_streak, streak_days, last_day, day) ==
  /\ day = last_day + 1 => new_streak = streak_days + 1
  /\ day = last_day => new_streak = streak_days
  /\ day > last_day + 1 => new_streak = 1

C15_StreakByCalendarDay ==
  [][ /\ \A p \in Procs :
           ( /\ pc[p] = "write" /\ pc'[p] = "tier_select"
             /\ users[loc[p].donation.user_id].last_donation_date # NoDate )
             => CalendarRule(users'[loc[p].donation.user_id].streak_days,
                             users[loc[p].donation.user_id].streak_days,
                             users[loc[p].donation.user_id].last_donation_date,
                             today)
      /\ \A u \in EbUsers :
           ( /\ eb_users'[u].total_donations = eb_users[u].total_donations + 1
             /\ eb_users[u].last_donation # NoDate )
             => CalendarRule(eb_users'[u].streak_days, eb_users[u].streak_days,
                             eb_users[u].last_donation \div 2, now \div 2)
    ]_vars

\* C16: for the donations of one user recorded on one calendar day, one after
\* another or concurrently, no commit raises streak_days by more than 1, and
\* once a donation of the day is committed the later commits of that day
\* leave streak_days as it is.
CommitsFor(p, u) ==
  pc[p] = "write" /\ pc'[p] = "tier_select" /\ loc[p].donation.user_id = u

TierRank(tier) ==
  CASE tier \in {"bronze", "Bronze"}     -> 0
    [] tier \in {"silver", "Silver"}     -> 1
    [] tier \in {"gold", "Gold"}         -> 2
    [] tier \in {"platinum", "Platinum"} -> 3
    [] tier = "Diamond"                  -> 4

TierTableMonotone ==
  \A p \in FnTotals : \A q \in FnTotals :
    p <= q => /\ TierRank(TierOf(p)) <= TierRank(TierOf(q))
              /\ TierRank(DsTierOf(p)) <= TierRank(DsTierOf(q))

C17_TierNeverRegresses ==
  /\ []TierTableMonotone
  /\ [][ PositiveLedger' =>
           \A u \in Users : TierRank(users'[u].tier) >= TierRank(users[u].tier) ]_vars

\* a user was moved to gold by a first donation and kept it after a second
C17_Witness ==
  /\ Quiet
  /\ PositiveLedger
  /\ \E u \in Users :
       /\ users[u].tier = "gold"
       /\ users[u].total_donations = 2
       /\ users[u].total_points > 6000

EbNoDuplicates(list) ==
  \A i \in DOMAIN list : \A j \in DOMAIN list : i # j => list[i] # list[j]

EbSetOf(list) == { list[i] : i \in DOMAIN list }

\* the points of the donation a step appends for user u
EbStepPoints(u) ==
  IF Len(eb_donations') = Len(eb_donations) + 1
       /\ eb_donations'[Len(eb_donations')].user_id = u
    THEN eb_donations'[Len(eb_donations')].points_awarded
    ELSE 0

C19_AchievementsUnlockedOnce ==
  [][ \A u \in EbUsers :
        /\ EbNoDuplicates(eb_user_achievements'[u])
        /\ SubSeq(eb_user_achievements'[u], 1, Len(eb_user_achievements[u]))
             = eb_user_achievements[u]
        /\ eb_users'[u].total_points =
             eb_users[u].total_points + EbStepPoints(u)
               + SumSeq(achievements_catalog,
                        EbSetOf(eb_user_achievements'[u]) \ EbSetOf(eb_user_achievements[u]))
    ]_vars

\* a second donation met the condition of first_donation again and the list
\* still holds it once
C19_Witness ==
  \E u \in EbUsers :
    /\ eb_users[u].total_donations = 2
    /\ eb_user_achievements[u] = << "first_donation" >>

\* C20: when an award_points call unlocks achievements, the user's stored
\* total_points after the call is the total the call read plus the
\* transaction's points plus the point rewards of the achievements it
\* unlocked.
PsReward(unlocked_achievements) ==
  SumSeq([i \in DOMAIN unlocked_achievements |->
            achievement_definitions[unlocked_achievements[i]].points],
         DOMAIN unlocked_achievements)

C20_RewardFoldedIntoTotal ==
  [][ \A p \in PsProcs :
        (ps_pc[p] = "update_achievements" /\ ps_pc'[p] = "idle")
          => ps_users'[ps_loc[p].transaction.user_id].total_points =
               ps_loc[p].user_data.total_points + ps_loc[p].transaction.points
                 + PsReward(ps_loc[p].unlocked_achievements)
    ]_vars

\* C21: when the generation of the notification fails for a donation that is
\* already committed, the call still returns 200 with the fallback
\* notification, and the Donation row and the user's totals stay as committed.
C21_NotificationFailureKeepsDonation ==
  [][\A p \in Procs :
       (pc[p] = "respond" /\ pc'[p] = "idle" /\ message_templates = "broken") =>
         /\ resp'[p] = "200"
         /\ notification'[p] = "error"
         /\ donations' = donations
         /\ loc[p].donation_id \in DOMAIN donations'
         /\ users' = users]_vars

\* a committed donation has been answered with the fallback notification
C21_Witness ==
  \E p \in Procs :
    /\ resp[p] = "200"
    /\ notification[p] = "error"
    /\ Len(donations) >= 1
    /\ users[1].total_donations >= 1

\* C22: a successful donation is validated, scored, persisted, its storage's
\* leader recomputed, and then notified, in that order: when the notification
\* is generated and the result returned, the recorded leader of the
\* donation's storage is already the donor with the highest total there.
C22_LeaderRecomputedBeforeResponse ==
  [][\A p \in Procs :
       (pc[p] = "respond" /\ pc'[p] = "idle" /\ PositiveLedger) =>
         LET s == loc[p].donation.storage_id
         IN [user_id |-> storages'[s].gym_leader_id,
             total_points |-> storages'[s].gym_leader_points] \in TopRows(s, donations)]_vars

\* C23: a failure at any stage of one donation aborts it as a whole.  A
\* failure of the scoring ends the call with an error and nothing written; a
\* failure of the persistence leaves the database as it was; after a failure
\* of the tier update or of the leader update the donation's row is no longer
\* recorded.
C23_FailureAbortsDonation ==
  [][/\ \A p \in Procs :
          ScoringFails(p) => (pc'[p] = "idle" /\ resp'[p] = "500")
     /\ \A p \in Procs :
          DonationFails(p) => UNCHANGED dbvars
     /\ \A p \in Procs :
          TierFails(p) => loc[p].donation_id \notin DOMAIN donations'
     /\ \A t \in TaskIds :
          LeaderFails(t) => t \notin DOMAIN donations']_vars

\* C24: the commit of a donation of item i at storage s that is treated as a
\* missing-item donation leaves no MissingItemRequest of (s, i) unfulfilled
\* and changes the fulfilled flag of no request of another (storage, item).
C24_MatchingRequestsFulfilled ==
  [][\A p \in Procs :
       (pc[p] = "write" /\ pc'[p] = "tier_select" /\ loc[p].is_missing_item) =>
         /\ DOMAIN missing_items_requests' = DOMAIN missing_items_requests
         /\ \A i \in DOMAIN missing_items_requests :
              IF /\ missing_items_requests[i].storage_id = loc[p].donation.storage_id
                 /\ missing_items_requests[i].item_name = loc[p].donation.item_name
                THEN missing_items_requests'[i].fulfilled
                ELSE missing_items_requests'[i] = missing_items_requests[i]]_vars

\* a missing-item donation of Winter Coats at storage 1 is recorded: the
\* request of storage 1 is fulfilled and the one of storage 2 is not
C24_Witness ==
  /\ \E i \in DOMAIN donations :
       /\ donations[i].missing_item_bonus
       /\ donations[i].storage_id = 1
       /\ donations[i].item_name = "Winter Coats"
  /\ missing_items_requests[1].fulfilled
  /\ ~missing_items_requests[2].fulfilled

\* C25: when create_donation of the donation service processes a donation
\* that does not move the user across a tier threshold, the stored tier is
\* unchanged and is the label _calculate_tier_progression gives for the
\* stored total_points.
C25_TierKeptWithinThreshold ==
  [][\A p \in DsProcs :
       ( /\ ds_pc[p] = "update_user" /\ ds_pc'[p] = "update_donation"
         /\ DsTierOf(ds_users'.total_points) = ds_users.tier ) =>
           /\ ds_users'.tier = ds_users.tier
           /\ ds_users'.tier = DsTierOf(ds_users'.total_points)]_vars

\* C26: for any interleaving of concurrent award_points calls of one user, no
\* achievement has two user_achievements records of the user or appears twice
\* in the user's achievements list, and once the calls are over the user's
\* total_points is the starting total (0) plus the points of every recorded
\* transaction.
PsRecordedOnce ==
  \A i, j \in DOMAIN ps_user_achievements :
    ( /\ ps_user_achievements[i].user_id = ps_user_achievements[j].user_id
      /\ ps_user_achievements[i].achievement_id = ps_user_achievements[j].achievement_id )
      => i = j

PsListedOnce ==
  \A u \in PsUsers : \A i, j \in DOMAIN ps_users[u].achievements :
    ps_users[u].achievements[i] = ps_users[u].achievements[j] => i = j

PsTotalExact ==
  (\A p \in PsProcs : ps_pc[p] = "idle") =>
    \A u \in PsUsers :
      ps_users[u].total_points =
        SumSeq([i \in DOMAIN ps_transactions |-> ps_transactions[i].points],
               { j \in DOMAIN ps_transactions : ps_transactions[j].user_id = u })

C26_ConcurrentAwardsRecordedOnce ==
  PsRecordedOnce /\ PsListedOnce /\ PsTotalExact

(***************************************************************************)
(* C27: in fast_backend, after POST /donate has returned successfully,     *)
(* every read served from the cached users list or the cached storages     *)
(* list gives the donor's new point total and the recomputed gym leader:   *)
(* a filled cache always holds the rows the database holds now, so no      *)
(* entry populated before a donation is served after it.                   *)
(***************************************************************************)
C27_CachedReadsReflectDonation ==
  /\ fb_cached_users.filled => fb_cached_users.rows = users
  /\ fb_cached_storages.filled => fb_cached_storages.rows = storages

\* both caches are filled after two donations and hold a donor's points
\* and a gym leader
C27_Witness ==
  /\ backend = "fast_backend"
  /\ Len(donations) = 2
  /\ fb_cached_users.filled
  /\ fb_cached_storages.filled
  /\ \E u \in Users : fb_cached_users.rows[u].total_points > 0
  /\ \E s \in Storages : fb_cached_storages.rows[s].gym_leader_id # NULL

(***************************************************************************)
(* C28: the Donation ledger is append-only: every step leaves each         *)
(* Donation record that exists with all its fields and removes none, in    *)
(* the donations table of the gym backend and in the donations collection  *)
(* of the donation service alike.                                          *)
(***************************************************************************)
C28_LedgerAppendOnly ==
  [][ /\ Len(donations') >= Len(donations)
      /\ \A i \in 1..Len(donations) : donations'[i] = donations[i]
      /\ Len(ds_donations') >= Len(ds_donations)
      /\ \A i \in 1..Len(ds_donations) : ds_donations'[i] = ds_donations[i] ]_vars

(***************************************************************************)
(* C29: the flag and the bonus of a recorded donation agree: every row of  *)
(* donations with missing_item_bonus set has bonus_points > 0 and every    *)
(* row without it has bonus_points = 0.  Ledgers of positive quantities   *)
(* are looked at, so that the bonus of a request times the quantity is     *)
(* positive and no stock was taken out.                                    *)
(***************************************************************************)
C29_FlagAgreesWithBonus ==
  PositiveLedger =>
    \A i \in DOMAIN donations :
      /\ donations[i].missing_item_bonus => donations[i].bonus_points > 0
      /\ ~donations[i].missing_item_bonus => donations[i].bonus_points = 0

\* the donations that were paid the bonus of the request at (storage_id, item_name)
PaidBonusOf(storage_id, item_name) ==
  { i \in DOMAIN donations :
      /\ donations[i].storage_id = storage_id
      /\ donations[i].item_name = item_name
      /\ donations[i].bonus_points # 0 }

====
